---- MODULE Spec2Model ----
(***************************************************************************)
(* Capture-and-analysis pipeline of the posture screen.                    *)
(*                                                                         *)
(*   usePoseDetection  (hook: single-flight flag, 600 ms recovery timer)   *)
(*   PostureDetection  (component: detection loop, frame-alert effect,     *)
(*                      voice throttle)                                    *)
(*                                                                         *)
(* The detection scheduler and the frame-quality monitor are two state     *)
(* machines over one set of variables: SchedSpec moves the hook and the    *)
(* detection loop, MonitorSpec moves the frame-alert effect and the speech *)
(* sink with the published snapshot as a free input.                       *)
(***************************************************************************)
EXTENDS Integers, Sequences, FiniteSets, TLC

\* ------------------------------------------------------------------------
\* Bounds of the model
\* ------------------------------------------------------------------------
\* number of detector invocations (pose.send) explored in one run
MaxRequests == 3

\* Date.now() when the screen opens, the granularity of the clock and the
\* last instant explored (ms)
ClockStart == 20000
ClockStep == 5000
MaxClock == 40000

\* runs of setupCamera explored
MaxAcq == 2

\* MediaRecorder objects constructed
MaxRecordings == 2

VARIABLES
    \* ---- PostureDetection component state -------------------------------
    mounted,        \* the component is mounted (false after onBack/unmount)
    method,         \* "none" | "camera" | "upload"   (useState method)
    isDetecting,    \* useState isDetecting
    isPaused,       \* useState isPaused
    videoReady,     \* videoRef.current.readyState >= 2
    \* ---- detection loop effect ------------------------------------------
    loopSt,         \* current loop: "idle" | "scheduled" (rAF pending) | "awaiting"
    loopReq,        \* request the current loop awaits (0 when not awaiting)
    suspended,      \* requests awaited by cleaned-up loops (isActive = false)
    detectRejected, \* runDetection's catch saw detect() reject
    \* ---- usePoseDetection hook ------------------------------------------
    poseOpen,       \* poseRef.current # null
    isProcessing,   \* isProcessing.current (single-flight flag)
    timeoutRef,     \* timeoutRef.current: timer id, 0 for null
    timers,         \* timer ids pending in the browser
    inflight,       \* pose.send calls not yet settled
    sendCount,      \* number of pose.send calls issued so far
    results,        \* useState results: [req, kind, lm], kind "null" for null
    \* ---- frame-alert effect and speech sink -----------------------------
    facingMode,     \* useState facingMode: "user" | "environment"
    frameAlert,     \* useState frameAlert (NoAlert for null)
    lastVoiceRef,   \* lastVoiceRef.current (ms)
    now,            \* Date.now() (ms)
    speechQueue,    \* window.speechSynthesis: utterances playing or queued
    \* ---- capture state machine ------------------------------------------
    countdown,      \* useState countdown (-1 for null)
    capturedMetrics,\* useState capturedMetrics (NullMetrics for null)
    videoPaused,    \* videoRef.current.paused
    countdownTimer, \* the setTimeout of the countdown effect is pending
    delivered,      \* metrics handed to onComplete, in order
    \* ---- camera effect --------------------------------------------------
    acqs,           \* the runs of setupCamera, oldest first
    srcObject,      \* videoRef.current.srcObject: index into acqs, 0 for null
    alerted,        \* runs of setupCamera that showed the camera alert()
    \* ---- recording effect -----------------------------------------------
    isRecording,    \* useState isRecording
    recorder,       \* mediaRecorderRef.current: "null" | "recording" | "inactive"
    recId,          \* MediaRecorder objects constructed; the last is the ref's
    recEvents,      \* stopped recorders whose final events are still queued
    recordedChunksRef, \* recordedChunksRef.current: chunks tagged by recorder
    files,          \* downloads triggered by onstop, in order
    \* ---- history --------------------------------------------------------
    acceptedOn,     \* results when the last capture command was accepted
    expired,        \* requests whose recovery timer fired
    spoken,         \* the last two voice dispatches
    ev              \* the step that led to this state

schedVarsButEv == <<mounted, method, isDetecting, isPaused, videoReady,
                    loopSt, loopReq, suspended, detectRejected,
                    poseOpen, isProcessing, timeoutRef, timers, inflight,
                    sendCount, results, expired>>

schedVars == <<schedVarsButEv, ev>>

monitorVars == <<facingMode, frameAlert, lastVoiceRef, now,
                 speechQueue, spoken>>

captureVars == <<countdown, capturedMetrics, videoPaused, countdownTimer,
                 delivered, acceptedOn>>

cameraVars == <<acqs, srcObject, alerted>>

recVars == <<isRecording, recorder, recId, recEvents, recordedChunksRef, files>>

vars == <<schedVars, monitorVars, captureVars, cameraVars, recVars>>

Event(op, req) == [op |-> op, req |-> req]

\* ------------------------------------------------------------------------
\* Results of the detector: poseLandmarks is a list of 33 landmarks (index
\* i of the code is element i + 1 here), each with x, y and visibility in
\* hundredths of the normalized range
\* ------------------------------------------------------------------------
NumLandmarks == 33

NoResults == [req |-> 0, kind |-> "null", lm |-> <<>>]

\* results without poseLandmarks (no body found)
ResultsWithoutLandmarks(k) == [req |-> k, kind |-> "nolandmarks", lm |-> <<>>]

ResultsWith(k, lm) == [req |-> k, kind |-> "landmarks", lm |-> lm]

None == <<-1, 0>>

\* a centred, fully visible body with the head at height hy, and at most one
\* foot landmark, one left-side landmark, one right-side landmark and one
\* visibility moved away; foot, left, right, vis are <<index, value>> or None
Pose(hy, foot, left, right, vis) ==
    [i \in 1..NumLandmarks |->
        LET idx == i - 1 IN
        [x |-> IF idx = left[1] THEN left[2]
               ELSE IF idx = right[1] THEN right[2] ELSE 50,
         y |-> IF idx = 0 THEN hy
               ELSE IF idx = foot[1] THEN foot[2] ELSE 50,
         v |-> IF idx = vis[1] THEN vis[2] ELSE 90]]

StandingPose == Pose(50, None, None, None, None)

\* snapshots published in the monitor runs: nothing, no landmarks, an empty
\* list, a well framed body, the head above the top edge (y = 0.02), head and
\* foot out together
MonitorInputs ==
    {ResultsWithoutLandmarks(1), ResultsWith(1, <<>>),
     ResultsWith(1, StandingPose),
     ResultsWith(1, Pose(2, None, None, None, None)),
     ResultsWith(1, Pose(2, <<31, 98>>, None, None, None))}

\* the snapshots the frame-alert effect is evaluated on: every combination
\* of a head height, a foot landmark, a left-side landmark, a right-side
\* landmark and a visibility, each one inside, on, or beyond its threshold
HeadYs == {2, 5, 50}
FootOpts == {None, <<32, 95>>} \cup {<<i, 98>> : i \in {27, 28, 31, 32}}
LeftOpts == {None, <<11, 5>>} \cup {<<i, 2>> : i \in {11, 13, 15, 23, 25}}
RightOpts == {None, <<12, 95>>} \cup {<<i, 98>> : i \in {12, 14, 16, 24, 26}}
VisOpts == {None, <<0, 55>>, <<0, 54>>, <<16, 54>>, <<32, 54>>}

AlertInputs ==
    {NoResults, ResultsWithoutLandmarks(1), ResultsWith(1, <<>>)}
    \cup {ResultsWith(1, Pose(hy, f, l, r, v)) :
             hy \in HeadYs, f \in FootOpts, l \in LeftOpts,
             r \in RightOpts, v \in VisOpts}

\* what the detector hands to onResults in the scheduler runs
DetectorOutputs == {"nolandmarks", "landmarks"}

DetectorResults(k, out) ==
    IF out = "landmarks" THEN ResultsWith(k, StandingPose)
    ELSE ResultsWithoutLandmarks(k)

\* ------------------------------------------------------------------------
\* usePoseDetection: the decisions taken by detect(), onResults, the timer
\* ------------------------------------------------------------------------
\* detect() without the single-flight test
DetectAccepts_IgnoresFlag(pose, processing) == pose

\* detect(): if (poseRef.current && !isProcessing.current)
DetectAccepts(pose, processing) == pose /\ ~processing

\* onResults publishing whatever the flag says
OnResultsPublishes_Always(processing) == TRUE

\* onResults: if (isProcessing.current) setResults(res)
OnResultsPublishes(processing) == processing

\* a handler that leaves the recovery timer running
ClearTimer_Leaves(ts, ref) == ts

\* onResults: clearTimeout(timeoutRef.current); the catch block and the
\* effect cleanup clear the same timer
ClearTimer(ts, ref) == ts \ {ref}

\* a catch block that forgets the flag
FlagAfterError_Kept(processing) == processing

\* catch block of detect(): isProcessing.current = false
FlagAfterError(processing) == FALSE

\* catch block of detect(): the rejection of pose.send stops here
ErrorEscapesDetect == FALSE

\* a cleanup that leaves the timer running
TimersAfterUnmount_Kept(ts, ref) == ts

\* effect cleanup of the hook: if (timeoutRef.current) clearTimeout(...)
TimersAfterUnmount(ts, ref) == ClearTimer(ts, ref)

\* ------------------------------------------------------------------------
\* PostureDetection: the detection loop effect
\* ------------------------------------------------------------------------
\* the loop of the earlier revision, which detects on a paused video too
LoopWantsDetect_IgnoresPause(ready, detecting, paused) == ready /\ detecting

\* runDetection: video && video.readyState >= 2 && isDetecting && !isPaused
LoopWantsDetect(ready, detecting, paused) == ready /\ detecting /\ ~paused

\* effect body: if (method) animationId = requestAnimationFrame(runDetection)
LoopAfterRerun(m) == IF m # "none" THEN "scheduled" ELSE "idle"

\* effect cleanup: isActive = false; cancelAnimationFrame(animationId).
\* A loop suspended in `await detect(video)` stays suspended, inactive.
SuspendedAfterCleanup(st, req, susp) ==
    IF st = "awaiting" THEN susp \cup {req} ELSE susp

\* Re-run of the loop effect (its deps [detect, method, isDetecting, isPaused]
\* change on every render because detect is a fresh closure).
RerunLoop(m) ==
    /\ suspended' = SuspendedAfterCleanup(loopSt, loopReq, suspended)
    /\ loopSt' = LoopAfterRerun(m)
    /\ loopReq' = 0

\* a continuation that schedules the next frame whatever isActive says
ResumeSchedules_Always(active) == TRUE

\* if (isActive) animationId = requestAnimationFrame(runDetection)
ResumeSchedules(active) == active

\* continuation of runDetection after `await detect(video)` for request k;
\* the loop that awaited k is active when it is the current loop
ResumeLoop(k) ==
    /\ suspended' = suspended \ {k}
    /\ IF ResumeSchedules(loopSt = "awaiting" /\ loopReq = k)
          THEN loopSt' = "scheduled" /\ loopReq' = 0
          ELSE UNCHANGED <<loopSt, loopReq>>

\* ------------------------------------------------------------------------
\* PostureDetection: the frame-alert effect ("UI Feedback & Direction Logic")
\* ------------------------------------------------------------------------
\* the messages of the effect, by meaning
NoAlert == "none"                         \* null
NoBody == "no body detected"              \* case 1
MoveDown == "move down"
MoveUp == "move up"
MoveLeft == "move left"
MoveRight == "move right"
StepBackFitFrame == "step back, whole body in frame"     \* outCount > 1
StepBackFullBody == "step back a little, full body"      \* isLowVisibility

\* const CRITICAL_LANDMARKS = [0, 15, 16, 23, 24, 27, 28, 31, 32]
CRITICAL_LANDMARKS == {0, 15, 16, 23, 24, 27, 28, 31, 32}

\* thresholds of the effect, in hundredths
TopEdge == 5
BottomEdge == 95
LeftEdge == 5
RightEdge == 95
MinVisibility == 55

FeetIdx == {31, 32, 27, 28}
LeftSideIdx == {11, 13, 15, 23, 25}
RightSideIdx == {12, 14, 16, 24, 26}

\* landmarks[idx] is defined
Has(lm, idx) == idx + 1 <= Len(lm)

At(lm, idx) == lm[idx + 1]

\* head && head.y < 0.05
HeadOut(lm) == Has(lm, 0) /\ At(lm, 0).y < TopEdge

\* feet.some(f => f && f.y > 0.95)
FeetOut(lm) == \E i \in FeetIdx : Has(lm, i) /\ At(lm, i).y > BottomEdge

\* leftSide.some(s => s && s.x < 0.05)
LeftOut(lm) == \E i \in LeftSideIdx : Has(lm, i) /\ At(lm, i).x < LeftEdge

\* rightSide.some(s => s && s.x > 0.95)
RightOut(lm) == \E i \in RightSideIdx : Has(lm, i) /\ At(lm, i).x > RightEdge

\* a visibility test that also rejects a visibility of exactly 0.55
IsLowVisibility_Inclusive(lm) ==
    \E i \in CRITICAL_LANDMARKS : ~Has(lm, i) \/ At(lm, i).v <= 55

\* CRITICAL_LANDMARKS.some(idx => !l || l.visibility === undefined ||
\* l.visibility < 0.55); every landmark of the model carries a visibility
IsLowVisibility(lm) ==
    \E i \in CRITICAL_LANDMARKS : ~Has(lm, i) \/ At(lm, i).v < MinVisibility

\* directions that do not look at the facing mode
Directions_IgnoresFacing(lm, facing) ==
    (IF HeadOut(lm) THEN <<MoveDown>> ELSE <<>>)
    \o (IF FeetOut(lm) THEN <<MoveUp>> ELSE <<>>)
    \o (IF LeftOut(lm) THEN <<MoveLeft>> ELSE <<>>)
    \o (IF RightOut(lm) THEN <<MoveRight>> ELSE <<>>)

\* the directions array, in push order
Directions(lm, facing) ==
    (IF HeadOut(lm) THEN <<MoveDown>> ELSE <<>>)
    \o (IF FeetOut(lm) THEN <<MoveUp>> ELSE <<>>)
    \o (IF LeftOut(lm)
        THEN <<IF facing = "user" THEN MoveLeft ELSE MoveRight>> ELSE <<>>)
    \o (IF RightOut(lm)
        THEN <<IF facing = "user" THEN MoveRight ELSE MoveLeft>> ELSE <<>>)

B2N(b) == IF b THEN 1 ELSE 0

\* outCount after the four boundary checks
OutCount(lm) ==
    B2N(HeadOut(lm)) + B2N(FeetOut(lm)) + B2N(LeftOut(lm)) + B2N(RightOut(lm))

\* the else-if chain of the earlier revision of the component: the first
\* check that fires wins and nothing else is counted
FrameAlertMsg_ElseIfChain(lm, facing) ==
    IF HeadOut(lm) THEN MoveDown
    ELSE IF FeetOut(lm) THEN MoveUp
    ELSE IF LeftOut(lm) THEN (IF facing = "user" THEN MoveLeft ELSE MoveRight)
    ELSE IF RightOut(lm) THEN (IF facing = "user" THEN MoveRight ELSE MoveLeft)
    ELSE IF IsLowVisibility(lm) THEN StepBackFullBody
    ELSE NoAlert

\* low visibility counted as one more violation
FrameAlertMsg_LowVisCounted(lm, facing) ==
    IF OutCount(lm) + B2N(IsLowVisibility(lm)) > 1 THEN StepBackFitFrame
    ELSE IF Len(Directions(lm, facing)) > 0 THEN Directions(lm, facing)[1]
    ELSE IF IsLowVisibility(lm) THEN StepBackFullBody
    ELSE NoAlert

\* alertMsg: if (outCount > 1) ... else if (directions.length > 0) ...
\* else if (isLowVisibility) ...
FrameAlertMsg(lm, facing) ==
    IF OutCount(lm) > 1 THEN StepBackFitFrame
    ELSE IF Len(Directions(lm, facing)) > 0 THEN Directions(lm, facing)[1]
    ELSE IF IsLowVisibility(lm) THEN StepBackFullBody
    ELSE NoAlert

\* a guard that forgets the pause
MonitorOff_IgnoresPause(m, detecting, paused) == m = "none" \/ ~detecting

\* if (!method || !isDetecting || isPaused)
MonitorOff(m, detecting, paused) == m = "none" \/ ~detecting \/ paused

\* if (!results || !results.poseLandmarks || results.poseLandmarks.length === 0)
NoLandmarks(res) == res.kind # "landmarks" \/ Len(res.lm) = 0

\* the guard of the earlier revision of the component: without landmarks
\* the alert is cleared
EffectAlert_ClearsWithoutLandmarks(m, detecting, paused, res, facing) ==
    IF res.kind # "landmarks" \/ ~detecting \/ paused THEN NoAlert
    ELSE FrameAlertMsg(res.lm, facing)

\* the value the effect gives to setFrameAlert
EffectAlert(m, detecting, paused, res, facing) ==
    IF MonitorOff(m, detecting, paused) THEN NoAlert
    ELSE IF NoLandmarks(res) THEN NoBody
    ELSE FrameAlertMsg(res.lm, facing)

\* 10 s voice throttle
VoiceThrottleMs == 10000

\* a throttle that lets the tenth second through
VoiceAllowed_Inclusive(t, last) == t - last >= VoiceThrottleMs

\* Date.now() - lastVoiceRef.current > 10000
VoiceAllowed(t, last) == t - last > VoiceThrottleMs

\* speaking without cancelling first
SpeakAfterCancel_NoCancel(queue, msg) == Append(queue, msg)

\* window.speechSynthesis.cancel(); window.speechSynthesis.speak(speech)
SpeakAfterCancel(queue, msg) == <<msg>>

\* n dispatches so far (counted up to 2), their times, whether each took the
\* no-body path, whether the last one found an utterance still in the sink
NothingSpoken == [n |-> 0, prevAt |-> 0, lastAt |-> 0,
                  prevNoBody |-> FALSE, lastNoBody |-> FALSE, preempted |-> FALSE]

\* the effect, run with the state of the render it belongs to; queue is the
\* speech sink as the handler of the step left it
FrameAlertEffect(m, detecting, paused, res, facing, queue) ==
    LET msg == EffectAlert(m, detecting, paused, res, facing) IN
    /\ frameAlert' = msg
    /\ IF msg # NoAlert /\ VoiceAllowed(now, lastVoiceRef)
       THEN /\ speechQueue' = SpeakAfterCancel(queue, msg)
            /\ lastVoiceRef' = now
            /\ spoken' = [n |-> IF spoken.n < 2 THEN spoken.n + 1 ELSE 2,
                          prevAt |-> spoken.lastAt, lastAt |-> now,
                          prevNoBody |-> spoken.lastNoBody,
                          lastNoBody |-> (msg = NoBody),
                          preempted |-> queue # <<>>]
       ELSE /\ speechQueue' = queue
            /\ UNCHANGED <<lastVoiceRef, spoken>>

\* ------------------------------------------------------------------------
\* Posture metrics (utils/postureAnalysis.ts) and the capture state machine
\* ------------------------------------------------------------------------
\* Coordinates are hundredths of the normalised frame; angles are
\* microdegrees (millionths of a degree).
Abs(n) == IF n < 0 THEN -n ELSE n

RECURSIVE Pow2(_)
Pow2(i) == IF i = 0 THEN 1 ELSE 2 * Pow2(i - 1)

\* atan(2^-i) for i = 0, 1, ..., in microdegrees
AtanTable ==
    <<45000000, 26565051, 14036243, 7125016, 3576334, 1789911, 895174,
      447614, 223811, 111906, 55953, 27976, 13988, 6994, 3497, 1749, 874,
      437, 219, 109, 55, 27>>

\* the angle of the vector (x, y), x >= 0: the vector is rotated onto the
\* x axis by the angles of AtanTable and the rotations are added up
RECURSIVE Cordic(_, _, _, _)
Cordic(x, y, z, i) ==
    IF i > Len(AtanTable) THEN z
    ELSE LET p == Pow2(i - 1) IN
         IF y > 0
         THEN Cordic(x + (y \div p), y - (x \div p), z + AtanTable[i], i + 1)
         ELSE Cordic(x - (y \div p), y + (x \div p), z - AtanTable[i], i + 1)

\* Math.atan2(dy, dx) * (180 / Math.PI), within 0.0001 degree
Atan2(dy, dx) ==
    LET a == IF dy = 0 THEN 0
             ELSE Cordic(Abs(dx) * Pow2(20), Abs(dy) * Pow2(20), 0, 1)
        b == IF dx < 0 THEN 180000000 - a ELSE a
    IN IF dy >= 0 THEN b ELSE -b

\* issue labels
LeftShoulderHigh == "left shoulder high"
RightShoulderHigh == "right shoulder high"
PelvicTilt == "pelvic tilt"
RoundShoulder == "round shoulder / forward head"

\* Math.abs(angle) > 3
AngleThreshold == 3000000

\* an issue threshold of two degrees
HasAngleIssue_TwoDegrees(angle) == Abs(angle) > 2000000

HasAngleIssue(angle) == Abs(angle) > AngleThreshold

\* neckForwardness > 0.1 and neckForwardness > 0.05
NeckIssueThreshold == 10
NeckPenaltyThreshold == 5

HasNeckIssue(neck) == neck > NeckIssueThreshold

\* a penalty that uses the threshold of the label
HasNeckPenalty_AtIssueThreshold(neck) == neck > NeckIssueThreshold

HasNeckPenalty(neck) == neck > NeckPenaltyThreshold

\* the issues list, in the order of the pushes
IssuesOf(shoulder, pelvic, neck) ==
    (IF HasAngleIssue(shoulder)
     THEN <<IF shoulder > 0 THEN LeftShoulderHigh ELSE RightShoulderHigh>>
     ELSE <<>>)
    \o (IF HasAngleIssue(pelvic) THEN <<PelvicTilt>> ELSE <<>>)
    \o (IF HasNeckIssue(neck) THEN <<RoundShoulder>> ELSE <<>>)

\* score -= Math.abs(angle) * 5 and score -= 20
AnglePenalty == 5
NeckPenalty == 20

\* a clamp without the lower bound
ClampScore_NoFloor(sc) == IF sc > 100000000 THEN 100000000 ELSE sc

\* Math.max(0, Math.min(100, score)), in millionths of a point
ClampScore(sc) ==
    IF sc < 0 THEN 0 ELSE IF sc > 100000000 THEN 100000000 ELSE sc

\* Math.round of a value that is not negative
RoundScore(sc) == (sc + 500000) \div 1000000

ScoreOf(shoulder, pelvic, neck) ==
    RoundScore(ClampScore(100000000 - Abs(shoulder) * AnglePenalty
                                    - Abs(pelvic) * AnglePenalty
                                    - (IF HasNeckPenalty(neck)
                                       THEN NeckPenalty * 1000000 ELSE 0)))

NullMetrics ==
    [kind |-> "null", shoulderAngle |-> 0, pelvicAngle |-> 0,
     roundShoulderIndex |-> 0, score |-> 0, issues |-> <<>>]

\* reading .y or .x of a landmark the list does not have is a TypeError
ThrownMetrics ==
    [kind |-> "throws", shoulderAngle |-> 0, pelvicAngle |-> 0,
     roundShoulderIndex |-> 0, score |-> 0, issues |-> <<>>]

\* analyzePosture(results): null exactly when poseLandmarks is absent
AnalyzePosture(res) ==
    IF res.kind # "landmarks" THEN NullMetrics
    ELSE IF \E i \in {7, 11, 12, 23, 24} : ~Has(res.lm, i) THEN ThrownMetrics
    ELSE LET lm == res.lm
             shoulder == Atan2(At(lm, 11).y - At(lm, 12).y,
                               At(lm, 11).x - At(lm, 12).x)
             pelvic == Atan2(At(lm, 23).y - At(lm, 24).y,
                             At(lm, 23).x - At(lm, 24).x)
             neck == At(lm, 7).x - At(lm, 11).x
         IN [kind |-> "metrics",
             shoulderAngle |-> shoulder,
             pelvicAngle |-> pelvic,
             roundShoulderIndex |-> neck,
             score |-> ScoreOf(shoulder, pelvic, neck),
             issues |-> IssuesOf(shoulder, pelvic, neck)]

\* a capture handler that does not look at what analyzePosture returned
CaptureAccepts_AnyResult(res) == res.kind # "null"

\* if (results) { const metrics = analyzePosture(results); if (metrics) ...
CaptureAccepts(res) ==
    res.kind # "null" /\ AnalyzePosture(res).kind = "metrics"

\* the capture button is disabled while countdown !== null
CaptureEnabled(cd) == cd = -1

\* a capture that pauses whatever the source is
PausesOnCapture_Always(m) == TRUE

\* if (method === 'upload') { videoRef.current?.pause(); setIsPaused(true) }
PausesOnCapture(m) == m = "upload"

\* a timer that takes two off the countdown
CountdownAfterTick_Skips(cd) == IF cd >= 2 THEN cd - 2 ELSE 0

\* setTimeout(() => setCountdown(countdown - 1), 1000)
CountdownAfterTick(cd) == cd - 1

\* a completion that analyses the snapshot current at zero
MetricsToDeliver_Recomputed(captured, res) == AnalyzePosture(res)

\* if (capturedMetrics) onComplete(capturedMetrics)
MetricsToDeliver(captured, res) == captured

\* ------------------------------------------------------------------------
\* Camera effect: each run of setupCamera is a record
\*   isActive  the flag of the effect instance that started it
\*   awaiting  the constraint whose getUserMedia call is pending, 0 for none
\*   tried     the constraints requested so far, in order
\*   failed    the constraints whose request was rejected
\*   got       the constraint whose request resolved, 0 for none
\*   stream    "none" | "live" | "stopped" (its tracks)
\*   current   currentStream of the effect instance is this stream
\* ------------------------------------------------------------------------
\* constraints = [facing + ideal 1280x720, facing, any camera]
NumConstraints == 3

NewAcquisition ==
    [isActive |-> TRUE, awaiting |-> 1, tried |-> <<1>>, failed |-> {},
     got |-> 0, stream |-> "none", current |-> FALSE]

\* track.stop()
StopStream(st) == IF st = "live" THEN "stopped" ELSE st

\* a cleanup that only clears the flag
CameraCleanup_KeepsStream(as) ==
    [i \in 1..Len(as) |-> [as[i] EXCEPT !.isActive = FALSE]]

\* cleanup of the camera effect: isActive = false; stop currentStream
CameraCleanup(as) ==
    [i \in 1..Len(as) |->
        IF as[i].isActive
        THEN [as[i] EXCEPT !.isActive = FALSE,
                           !.stream = IF as[i].current THEN StopStream(@) ELSE @]
        ELSE as[i]]

\* setupCamera before its first await: the tracks of the old srcObject are
\* stopped and the first constraint is requested
StartCamera(as, src) ==
    LET cleaned == CameraCleanup(as)
        stopped == IF src # 0
                   THEN [cleaned EXCEPT ![src].stream = StopStream(@)]
                   ELSE cleaned
    IN Append(stopped, NewAcquisition)

\* a fallback loop without the break
AwaitingAfterResolve_NoBreak(c) == IF c < NumConstraints THEN c + 1 ELSE 0

\* if (stream) break
AwaitingAfterResolve(c) == 0

\* catch (err) { lastError = err }: the loop goes on to the next constraint
AwaitingAfterReject(c) == IF c < NumConstraints THEN c + 1 ELSE 0

\* the effect of the earlier revision, which has no isActive flag: a stream
\* is kept whenever it arrives
StreamOnArrival_AlwaysKept(active) == "live"

\* if (!isActive) { stream.getTracks().forEach(t => t.stop()); return }
StreamOnArrival(active) == IF active THEN "live" ELSE "stopped"

\* the catch of the earlier revision, which has no isActive flag
AlertsOnFailure_Always(active) == TRUE

\* if (isActive) { alert(...); setMethod(null) }
AlertsOnFailure(active) == active

\* a failure that leaves the camera selected
MethodAfterCameraFailure_Kept(m) == m

\* setMethod(null)
MethodAfterCameraFailure(m) == "none"

\* the record after the pending request settles and c is awaited next
Requested(a, c) ==
    IF c = 0 THEN [a EXCEPT !.awaiting = 0]
    ELSE [a EXCEPT !.awaiting = c, !.tried = Append(@, c)]

\* ------------------------------------------------------------------------
\* Recording effect
\* ------------------------------------------------------------------------
\* an else branch that leaves the recorder running
StopRecorder_Never(r) == r

\* mediaRecorderRef.current.stop() when its state is not 'inactive'
StopRecorder(r) == IF r = "recording" THEN "inactive" ELSE r

hookVars == <<poseOpen, isProcessing, timeoutRef, timers, inflight,
              sendCount, results, expired>>

\* the component with source m selected and res published, before any
\* detection; the state after construction has no source and no results
ScreenState(m, res) ==
    /\ mounted = TRUE
    /\ method = m
    /\ isDetecting = TRUE
    /\ isPaused = FALSE
    /\ videoReady = FALSE
    /\ loopSt = LoopAfterRerun(m)
    /\ loopReq = 0
    /\ suspended = {}
    /\ detectRejected = FALSE
    /\ poseOpen = TRUE
    /\ isProcessing = FALSE
    /\ timeoutRef = 0
    /\ timers = {}
    /\ inflight = {}
    /\ sendCount = 0
    /\ results = res
    /\ expired = {}
    /\ ev = Event("init", 0)

SchedInit == ScreenState("none", NoResults)

\* no capture, no recording; with the camera as the source the effect has
\* started setupCamera
DeviceState(m) ==
    /\ countdown = -1
    /\ capturedMetrics = NullMetrics
    /\ videoPaused = FALSE
    /\ countdownTimer = FALSE
    /\ delivered = <<>>
    /\ acceptedOn = NoResults
    /\ acqs = (IF m = "camera" THEN <<NewAcquisition>> ELSE <<>>)
    /\ srcObject = 0
    /\ alerted = {}
    /\ isRecording = FALSE
    /\ recorder = "null"
    /\ recId = 0
    /\ recEvents = {}
    /\ recordedChunksRef = <<>>
    /\ files = <<>>

\* ---- user actions ------------------------------------------------------
\* source selector: setMethod('camera'); setIsDetecting(true)
SelectCamera ==
    /\ mounted /\ method = "none"
    /\ method' = "camera"
    /\ isDetecting' = TRUE
    /\ videoReady' = FALSE
    /\ RerunLoop("camera")
    /\ ev' = Event("select", 0)
    /\ UNCHANGED <<mounted, isPaused, detectRejected, hookVars>>
    /\ FrameAlertEffect("camera", TRUE, isPaused, results, facingMode, speechQueue)
    /\ UNCHANGED <<facingMode, now>>
    \* the camera effect runs setupCamera
    /\ Len(acqs) < MaxAcq
    /\ acqs' = StartCamera(acqs, srcObject)
    /\ srcObject' = 0
    /\ alerted' = alerted
    /\ UNCHANGED <<captureVars, recVars>>

\* file input: setVideoSrc; setMethod('upload'); setIsDetecting(true);
\* setIsPaused(false)
SelectUpload ==
    /\ mounted /\ method = "none"
    /\ method' = "upload"
    /\ isDetecting' = TRUE
    /\ isPaused' = FALSE
    /\ videoReady' = FALSE
    /\ RerunLoop("upload")
    /\ ev' = Event("select", 0)
    /\ UNCHANGED <<mounted, detectRejected, hookVars>>
    /\ FrameAlertEffect("upload", TRUE, FALSE, results, facingMode, speechQueue)
    /\ UNCHANGED <<facingMode, now>>
    /\ UNCHANGED <<captureVars, cameraVars, recVars>>

\* reset button: setMethod(null); setVideoSrc(null); setIsPaused(false)
ResetSource ==
    /\ mounted /\ method # "none"
    /\ method' = "none"
    /\ isPaused' = FALSE
    /\ videoReady' = FALSE
    /\ RerunLoop("none")
    /\ ev' = Event("reset", 0)
    /\ UNCHANGED <<mounted, isDetecting, detectRejected, hookVars>>
    \* window.speechSynthesis.cancel() empties the sink
    /\ FrameAlertEffect("none", isDetecting, FALSE, results, facingMode, <<>>)
    /\ UNCHANGED <<facingMode, now>>
    \* the video element goes with the source; the camera effect cleans up
    /\ videoPaused' = FALSE
    /\ acqs' = CameraCleanup(acqs)
    /\ srcObject' = 0
    /\ alerted' = alerted
    /\ UNCHANGED <<countdown, capturedMetrics, countdownTimer, delivered,
                   acceptedOn, recVars>>

\* detect button: setIsDetecting(!isDetecting)
ToggleDetecting ==
    /\ mounted /\ method # "none"
    /\ isDetecting' = ~isDetecting
    /\ RerunLoop(method)
    /\ ev' = Event("toggleDetecting", 0)
    /\ UNCHANGED <<mounted, method, isPaused, videoReady, detectRejected, hookVars>>
    /\ FrameAlertEffect(method, ~isDetecting, isPaused, results, facingMode, speechQueue)
    /\ UNCHANGED <<facingMode, now>>
    /\ UNCHANGED <<captureVars, cameraVars, recVars>>

\* togglePause (button shown in upload mode only)
\* if (video.paused) { video.play(); setIsPaused(false) }
\* else { video.pause(); setIsPaused(true) }
TogglePause ==
    /\ mounted /\ method = "upload"
    /\ videoPaused' = ~videoPaused
    /\ isPaused' = ~videoPaused
    /\ RerunLoop(method)
    /\ ev' = Event("togglePause", 0)
    /\ UNCHANGED <<mounted, method, isDetecting, videoReady, detectRejected, hookVars>>
    /\ FrameAlertEffect(method, isDetecting, ~videoPaused, results, facingMode, speechQueue)
    /\ UNCHANGED <<facingMode, now>>
    /\ UNCHANGED <<countdown, capturedMetrics, countdownTimer, delivered,
                   acceptedOn, cameraVars, recVars>>

\* the video element reaches readyState >= 2
VideoBecomesReady ==
    /\ mounted /\ method # "none" /\ ~videoReady
    /\ videoReady' = TRUE
    /\ ev' = Event("videoReady", 0)
    /\ UNCHANGED <<mounted, method, isDetecting, isPaused, loopSt, loopReq,
                   suspended, detectRejected, hookVars>>
    /\ UNCHANGED <<monitorVars, captureVars, cameraVars, recVars>>

\* any other render of the component (timeupdate, frame alert, seeking, ...)
Rerender ==
    /\ mounted
    /\ RerunLoop(method)
    /\ ev' = Event("rerender", 0)
    /\ UNCHANGED <<mounted, method, isDetecting, isPaused, videoReady,
                   detectRejected, hookVars>>
    /\ UNCHANGED <<monitorVars, captureVars, cameraVars, recVars>>

\* a countdown effect without a cleanup
CountdownTimerAfterCleanup_Kept(pending) == pending

\* return () => clearTimeout(timer)
CountdownTimerAfterCleanup(pending) == FALSE

\* the component unmounts: every effect cleanup runs
Teardown ==
    /\ mounted' = FALSE
    /\ suspended' = SuspendedAfterCleanup(loopSt, loopReq, suspended)
    /\ loopSt' = "idle"
    /\ loopReq' = 0
    /\ timers' = IF timeoutRef # 0 THEN TimersAfterUnmount(timers, timeoutRef) ELSE timers
    /\ poseOpen' = FALSE
    /\ countdownTimer' = CountdownTimerAfterCleanup(countdownTimer)
    /\ acqs' = CameraCleanup(acqs)
    /\ srcObject' = 0
    /\ alerted' = alerted
    /\ UNCHANGED <<method, isDetecting, isPaused, videoReady, detectRejected,
                   isProcessing, timeoutRef, inflight, sendCount, results, expired>>
    /\ UNCHANGED <<monitorVars, videoPaused, capturedMetrics, acceptedOn, recVars>>

\* back button: onBack() makes App leave the 'detecting' stage
Unmount ==
    /\ mounted
    /\ Teardown
    /\ ev' = Event("unmount", 0)
    /\ UNCHANGED <<countdown, delivered>>

\* ---- the refresh callback: runDetection ---------------------------------
Tick ==
    /\ mounted /\ loopSt = "scheduled"
    /\ IF LoopWantsDetect(videoReady, isDetecting, isPaused)
       THEN IF DetectAccepts(poseOpen, isProcessing)
            THEN \* accepted: flag, timer, pose.send; the loop awaits
                 /\ sendCount < MaxRequests
                 /\ LET k == sendCount + 1 IN
                    /\ sendCount' = k
                    /\ isProcessing' = TRUE
                    /\ timeoutRef' = k
                    /\ timers' = timers \cup {k}
                    /\ inflight' = inflight \cup {k}
                    /\ loopSt' = "awaiting"
                    /\ loopReq' = k
                    /\ ev' = Event("accept", k)
                 /\ UNCHANGED <<poseOpen, results, expired, suspended>>
            ELSE \* dropped: detect() returns at once, the loop reschedules
                 /\ ev' = Event("drop", 0)
                 /\ UNCHANGED <<hookVars, loopSt, loopReq, suspended>>
       ELSE /\ ev' = Event("idleTick", 0)
            /\ UNCHANGED <<hookVars, loopSt, loopReq, suspended>>
    /\ UNCHANGED <<mounted, method, isDetecting, isPaused, videoReady, detectRejected>>
    /\ UNCHANGED <<monitorVars, captureVars, cameraVars, recVars>>

\* ---- the recovery timer fires: isProcessing.current = false -------------
TimerFire ==
    /\ \E t \in timers :
        /\ timers' = timers \ {t}
        /\ expired' = expired \cup {t}
        /\ isProcessing' = FALSE
        /\ ev' = Event("timeout", t)
    /\ UNCHANGED <<mounted, method, isDetecting, isPaused, videoReady,
                   loopSt, loopReq, suspended, detectRejected,
                   poseOpen, timeoutRef, inflight, sendCount, results>>
    /\ UNCHANGED <<monitorVars, captureVars, cameraVars, recVars>>

\* ---- pose.send(k) settles with a result: onResults, then the await ------
DetectorResult ==
    /\ \E k \in inflight, out \in DetectorOutputs :
        /\ inflight' = inflight \ {k}
        /\ timers' = IF timeoutRef # 0 THEN ClearTimer(timers, timeoutRef) ELSE timers
        /\ timeoutRef' = 0
        /\ isProcessing' = FALSE
        /\ ev' = Event("result", k)
        /\ IF OnResultsPublishes(isProcessing) /\ mounted
           THEN \* setResults(res) renders the component: the loop effect re-runs
                /\ results' = DetectorResults(k, out)
                /\ suspended' = SuspendedAfterCleanup(loopSt, loopReq, suspended) \ {k}
                /\ loopSt' = LoopAfterRerun(method)
                /\ loopReq' = 0
                /\ FrameAlertEffect(method, isDetecting, isPaused,
                                    DetectorResults(k, out), facingMode, speechQueue)
           ELSE /\ results' = results
                /\ ResumeLoop(k)
                /\ UNCHANGED <<frameAlert, lastVoiceRef, speechQueue, spoken>>
    /\ UNCHANGED <<mounted, method, isDetecting, isPaused, videoReady,
                   detectRejected, poseOpen, sendCount, expired>>
    /\ UNCHANGED <<facingMode, now>>
    /\ UNCHANGED <<captureVars, cameraVars, recVars>>

\* ---- pose.send(k) rejects: the catch block of detect() -------------------
DetectorError ==
    /\ \E k \in inflight :
        /\ inflight' = inflight \ {k}
        /\ isProcessing' = FlagAfterError(isProcessing)
        /\ timers' = IF timeoutRef # 0 THEN ClearTimer(timers, timeoutRef) ELSE timers
        /\ detectRejected' = (detectRejected \/ ErrorEscapesDetect)
        /\ ResumeLoop(k)
        /\ ev' = Event("error", k)
    /\ UNCHANGED <<mounted, method, isDetecting, isPaused, videoReady,
                   poseOpen, timeoutRef, sendCount, results, expired>>
    /\ UNCHANGED <<monitorVars, captureVars, cameraVars, recVars>>

SchedNext ==
    \/ SelectCamera
    \/ SelectUpload
    \/ ResetSource
    \/ ToggleDetecting
    \/ TogglePause
    \/ VideoBecomesReady
    \/ Rerender
    \/ Unmount
    \/ Tick
    \/ TimerFire
    \/ DetectorResult
    \/ DetectorError

\* ---- frame-quality monitor: its own steps ------------------------------
MonitorInitFacing(facing) ==
    /\ facingMode = facing
    /\ frameAlert = NoAlert
    /\ lastVoiceRef = 0
    /\ now = ClockStart
    /\ speechQueue = <<>>
    /\ spoken = NothingSpoken

MonitorInit == MonitorInitFacing("user")

\* facing button (camera mode): setFacingMode(m => m === 'user' ? ... )
ToggleFacing ==
    /\ mounted /\ method = "camera"
    /\ facingMode' = (IF facingMode = "user" THEN "environment" ELSE "user")
    /\ videoReady' = FALSE
    /\ RerunLoop(method)
    /\ FrameAlertEffect(method, isDetecting, isPaused, results, facingMode', speechQueue)
    /\ ev' = Event("toggleFacing", 0)
    /\ UNCHANGED <<mounted, method, isDetecting, isPaused, detectRejected, hookVars, now>>
    \* the camera effect cleans up and runs setupCamera again
    /\ Len(acqs) < MaxAcq
    /\ acqs' = StartCamera(acqs, srcObject)
    /\ srcObject' = 0
    /\ alerted' = alerted
    /\ UNCHANGED <<captureVars, recVars>>

\* setResults(res) with a snapshot of the monitor's input set: the render it
\* causes re-runs the loop effect and the frame-alert effect. With no source
\* selected only the late result of an earlier source can arrive.
Publish(inputs) ==
    /\ mounted
    /\ method # "none" \/ results.kind # "null"
    /\ \E res \in inputs :
        /\ results' = res
        /\ FrameAlertEffect(method, isDetecting, isPaused, res, facingMode, speechQueue)
    /\ RerunLoop(method)
    /\ ev' = Event("publish", 0)
    /\ UNCHANGED <<mounted, method, isDetecting, isPaused, videoReady, detectRejected,
                   poseOpen, isProcessing, timeoutRef, timers, inflight, sendCount,
                   expired, facingMode, now>>
    /\ UNCHANGED <<captureVars, cameraVars, recVars>>

PublishResults == Publish(MonitorInputs)

\* wall-clock time passes
ClockAdvance ==
    /\ now + ClockStep <= MaxClock
    /\ now' = now + ClockStep
    /\ ev' = Event("clock", 0)
    /\ UNCHANGED <<schedVarsButEv, facingMode, frameAlert, lastVoiceRef, speechQueue, spoken>>
    /\ UNCHANGED <<captureVars, cameraVars, recVars>>

\* the utterance being played ends
UtteranceEnds ==
    /\ speechQueue # <<>>
    /\ speechQueue' = Tail(speechQueue)
    /\ ev' = Event("utteranceEnd", 0)
    /\ UNCHANGED <<schedVarsButEv, facingMode, frameAlert, lastVoiceRef, now, spoken>>
    /\ UNCHANGED <<captureVars, cameraVars, recVars>>

MonitorNext ==
    \/ SelectCamera
    \/ SelectUpload
    \/ ResetSource
    \/ ToggleDetecting
    \/ TogglePause
    \/ ToggleFacing
    \/ PublishResults
    \/ ClockAdvance
    \/ UtteranceEnds

\* ---- capture state machine: its own steps ------------------------------
\* snapshots published in the capture runs: no landmarks, an empty list, a
\* level body, and a body whose left shoulder is off to the side
CaptureInputs ==
    {ResultsWithoutLandmarks(1), ResultsWith(1, <<>>),
     ResultsWith(1, StandingPose),
     ResultsWith(2, Pose(50, None, <<11, 40>>, None, None))}

PublishSnapshot == Publish(CaptureInputs)

\* capture button: handleCapture
HandleCapture ==
    /\ mounted /\ method # "none" /\ CaptureEnabled(countdown)
    /\ IF CaptureAccepts(results)
       THEN /\ capturedMetrics' = AnalyzePosture(results)
            /\ countdown' = 3
            /\ acceptedOn' = results
            /\ ev' = Event("capture", 0)
            \* the render: the countdown effect arms its timer, the loop
            \* effect re-runs
            /\ countdownTimer' = TRUE
            /\ RerunLoop(method)
            /\ IF PausesOnCapture(method)
               THEN /\ videoPaused' = TRUE
                    /\ isPaused' = TRUE
                    /\ FrameAlertEffect(method, isDetecting, TRUE, results,
                                        facingMode, speechQueue)
               ELSE UNCHANGED <<videoPaused, isPaused, frameAlert, lastVoiceRef,
                                speechQueue, spoken>>
       ELSE \* nothing is set; an exception of analyzePosture leaves the handler
            /\ ev' = Event(IF AnalyzePosture(results).kind = "throws"
                           THEN "captureThrew" ELSE "captureIgnored", 0)
            /\ UNCHANGED <<capturedMetrics, countdown, acceptedOn, countdownTimer,
                           loopSt, loopReq, suspended, videoPaused, isPaused,
                           frameAlert, lastVoiceRef, speechQueue, spoken>>
    /\ UNCHANGED <<mounted, method, isDetecting, videoReady, detectRejected,
                   hookVars, facingMode, now, delivered, cameraVars, recVars>>

\* the countdown timer fires: setCountdown(countdown - 1); the effect then
\* arms the next timer or, at 0, calls onComplete, and App replaces the screen
CountdownTick ==
    /\ mounted /\ countdownTimer /\ countdown > 0
    /\ countdown' = CountdownAfterTick(countdown)
    /\ ev' = Event("countdownTick", 0)
    /\ IF countdown' > 0
       THEN /\ countdownTimer' = TRUE
            /\ RerunLoop(method)
            /\ UNCHANGED <<mounted, method, isDetecting, isPaused, videoReady,
                           detectRejected, hookVars, monitorVars, videoPaused,
                           capturedMetrics, acceptedOn, delivered, cameraVars,
                           recVars>>
       ELSE /\ delivered' = (IF capturedMetrics.kind # "null"
                             THEN Append(delivered,
                                         MetricsToDeliver(capturedMetrics, results))
                             ELSE delivered)
            /\ Teardown

\* ---- camera: the pending getUserMedia call of a run settles -------------
GetUserMediaResolves ==
    /\ \E a \in 1..Len(acqs) :
        /\ acqs[a].awaiting # 0
        /\ LET c == acqs[a].awaiting
               next == AwaitingAfterResolve(c)
               r == Requested(acqs[a], next)
           IN IF next # 0
              THEN /\ acqs' = [acqs EXCEPT ![a] = [r EXCEPT !.got = c]]
                   /\ srcObject' = srcObject
              ELSE \* if (!isActive) stop the tracks; else currentStream = stream
                   \* and videoRef.current.srcObject = stream
                   /\ acqs' = [acqs EXCEPT ![a] =
                                 [r EXCEPT !.got = c,
                                           !.stream = StreamOnArrival(r.isActive),
                                           !.current = r.isActive]]
                   /\ srcObject' = IF acqs[a].isActive /\ mounted THEN a
                                   ELSE srcObject
        /\ ev' = Event("cameraResolve", a)
    /\ UNCHANGED <<schedVarsButEv, monitorVars, captureVars, recVars, alerted>>

GetUserMediaRejects ==
    /\ \E a \in 1..Len(acqs) :
        /\ acqs[a].awaiting # 0
        /\ LET c == acqs[a].awaiting
               next == AwaitingAfterReject(c)
               r == [Requested(acqs[a], next) EXCEPT !.failed = @ \cup {c}]
               gaveUp == next = 0 /\ r.got = 0 /\ AlertsOnFailure(r.isActive)
           IN IF gaveUp
              THEN \* alert(...); setMethod(null): the render cleans the camera
                   \* effect up and re-runs the loop and frame-alert effects
                   /\ acqs' = CameraCleanup([acqs EXCEPT ![a] = r])
                   /\ alerted' = alerted \cup {a}
                   /\ method' = MethodAfterCameraFailure(method)
                   /\ videoReady' = FALSE
                   /\ srcObject' = 0
                   /\ RerunLoop(method')
                   /\ FrameAlertEffect(method', isDetecting, isPaused, results,
                                       facingMode, speechQueue)
                   /\ ev' = Event("cameraFailed", a)
              ELSE /\ acqs' = [acqs EXCEPT ![a] = r]
                   /\ ev' = Event("cameraReject", a)
                   /\ UNCHANGED <<method, videoReady, srcObject, alerted,
                                  loopSt, loopReq,
                                  suspended, frameAlert, lastVoiceRef,
                                  speechQueue, spoken>>
    /\ UNCHANGED <<mounted, isDetecting, isPaused, detectRejected, hookVars,
                   facingMode, now, captureVars, recVars>>

\* ---- recording: the record button or a voice command ------------------
\* canvas.captureStream(30), new MediaRecorder(...) and recorder.start() may
\* throw
RecorderStartOutcomes ==
    {"started", "captureStreamThrows", "constructorThrows", "startThrows"}

\* mediaRecorderRef.current = recorder; recordedChunksRef.current = [] come
\* after the constructor and before recorder.start()
RecorderConstructed(outcome) == outcome \in {"started", "startThrows"}

\* a stop branch that stops whatever the ref holds
EventsAfterStop_Unguarded(r, id, evs) == evs \cup {id}

\* recorder.stop() queues one task that fires the final dataavailable event
\* and then the stop event
EventsAfterStop(r, id, evs) == IF r = "recording" THEN evs \cup {id} ELSE evs

\* a catch block that only logs
FlagAfterStartFailure_Kept(flag) == flag

\* catch (e) { console.error(...); setIsRecording(false) }
FlagAfterStartFailure(flag) == FALSE

\* setIsRecording(!isRecording) and the recording effect that follows
ToggleRecording ==
    /\ mounted /\ method = "camera"
    /\ \E outcome \in RecorderStartOutcomes :
        IF ~isRecording
        THEN /\ recId < MaxRecordings
             /\ recId' = (IF RecorderConstructed(outcome) THEN recId + 1 ELSE recId)
             /\ recordedChunksRef' = (IF RecorderConstructed(outcome) THEN <<>>
                                      ELSE recordedChunksRef)
             /\ IF outcome = "started"
                THEN /\ isRecording' = TRUE
                     /\ recorder' = "recording"
                     /\ recEvents' = recEvents
                     /\ ev' = Event("recordStart", recId')
                ELSE \* catch: setIsRecording(false); the effect runs again and
                     \* takes its else branch
                     LET r == IF RecorderConstructed(outcome) THEN "inactive"
                              ELSE recorder
                     IN /\ isRecording' = FlagAfterStartFailure(TRUE)
                        /\ recorder' = StopRecorder(r)
                        /\ recEvents' = EventsAfterStop(r, recId', recEvents)
                        /\ ev' = Event("recordFailed", recId')
        ELSE /\ outcome = "started"
             /\ isRecording' = FALSE
             /\ recorder' = StopRecorder(recorder)
             /\ recEvents' = EventsAfterStop(recorder, recId, recEvents)
             /\ ev' = Event("recordStop", recId)
             /\ UNCHANGED <<recId, recordedChunksRef>>
    /\ RerunLoop(method)
    /\ UNCHANGED <<mounted, method, isDetecting, isPaused, videoReady,
                   detectRejected, hookVars, monitorVars, captureVars, cameraVars,
                   files>>

\* e.data.size > 0 or not
ChunkSizes == {"empty", "data"}

\* the task queued by recorder.stop() runs:
\*   ondataavailable: if (e.data.size > 0) recordedChunksRef.current.push(e.data)
\*   onstop: new Blob(recordedChunksRef.current), a.click()
RecorderStopped ==
    /\ \E id \in recEvents, size \in ChunkSizes :
        LET chunk == IF size = "data" THEN <<id>> ELSE <<>> IN
        /\ recordedChunksRef' = recordedChunksRef \o chunk
        /\ files' = Append(files, [by |-> id, chunks |-> recordedChunksRef',
                                   produced |-> chunk])
        /\ recEvents' = recEvents \ {id}
        /\ ev' = Event("recorderStop", id)
    /\ UNCHANGED <<schedVarsButEv, monitorVars, captureVars, cameraVars,
                   isRecording, recorder, recId>>

Init == SchedInit /\ MonitorInit /\ DeviceState("none")

MonitorSpec == Init /\ [][MonitorNext]_vars

\* ---- the frame-alert effect as a function of the snapshot ---------------
\* the render in which the camera is the source and res has just been
\* published, the effect not yet run
AlertInit ==
    \E res \in AlertInputs, facing \in {"user", "environment"} :
        /\ ScreenState("camera", res)
        /\ MonitorInitFacing(facing)
        /\ DeviceState("camera")

\* the frame-alert effect runs for the current render
RunFrameAlertEffect ==
    /\ mounted
    /\ FrameAlertEffect(method, isDetecting, isPaused, results, facingMode, speechQueue)
    /\ ev' = Event("effect", 0)
    /\ UNCHANGED <<schedVarsButEv, facingMode, now>>
    /\ UNCHANGED <<captureVars, cameraVars, recVars>>

AlertNext ==
    \/ RunFrameAlertEffect
    \/ ToggleFacing

AlertSpec == AlertInit /\ [][AlertNext]_vars

SchedSpec == Init /\ [][SchedNext]_vars

\* ---- capture runs -------------------------------------------------------
CaptureNext ==
    \/ SelectCamera
    \/ SelectUpload
    \/ ResetSource
    \/ TogglePause
    \/ PublishSnapshot
    \/ HandleCapture
    \/ CountdownTick
    \/ Unmount

CaptureSpec == Init /\ [][CaptureNext]_vars

\* a countdown timer that is pending does fire
CaptureLiveSpec == CaptureSpec /\ WF_vars(CountdownTick)

\* ---- the metric engine as a function of the snapshot --------------------
\* the standing body with the shoulders, the hips and the left ear moved:
\* ls, rs, lh, rh are <<x, y>>, ear is the x of the left ear
Body(ls, rs, lh, rh, ear) ==
    [StandingPose EXCEPT ![12] = [x |-> ls[1], y |-> ls[2], v |-> 90],
                         ![13] = [x |-> rs[1], y |-> rs[2], v |-> 90],
                         ![24] = [x |-> lh[1], y |-> lh[2], v |-> 90],
                         ![25] = [x |-> rh[1], y |-> rh[2], v |-> 90],
                         ![8] = [x |-> ear, y |-> 40, v |-> 90]]

\* <<left, right>> shoulders: level, level with left and right swapped,
\* tilted with left and right swapped, and tilted a little under, a little
\* over and well over three degrees
ShoulderOpts ==
    {<<<<60, 50>>, <<40, 50>>>>, <<<<40, 50>>, <<60, 50>>>>,
     <<<<40, 55>>, <<60, 50>>>>, <<<<60, 51>>, <<40, 50>>>>,
     <<<<59, 51>>, <<40, 50>>>>, <<<<60, 49>>, <<40, 50>>>>,
     <<<<60, 55>>, <<40, 50>>>>}

\* <<left, right>> hips
HipOpts ==
    {<<<<60, 50>>, <<40, 50>>>>, <<<<60, 51>>, <<40, 50>>>>,
     <<<<40, 50>>, <<60, 50>>>>, <<<<60, 48>>, <<40, 50>>>>}

\* ear.x - shoulder.x: around and between the two thresholds
EarOffsets == {-5, 0, 5, 6, 10, 11, 12}

MetricInputs ==
    {ResultsWith(1, Body(sh[1], sh[2], hip[1], hip[2], sh[1][1] + off)) :
        sh \in ShoulderOpts, hip \in HipOpts, off \in EarOffsets}

\* a video file is the source and res has been published
MetricInit ==
    \E res \in MetricInputs :
        /\ ScreenState("upload", res)
        /\ MonitorInit
        /\ DeviceState("upload")

MetricNext ==
    \/ HandleCapture
    \/ CountdownTick

MetricSpec == MetricInit /\ [][MetricNext]_vars

\* ---- camera runs --------------------------------------------------------
CameraNext ==
    \/ SelectCamera
    \/ ResetSource
    \/ ToggleFacing
    \/ GetUserMediaResolves
    \/ GetUserMediaRejects
    \/ Unmount

CameraSpec == Init /\ [][CameraNext]_vars

\* ---- recording runs -----------------------------------------------------
RecNext ==
    \/ SelectCamera
    \/ ResetSource
    \/ ToggleRecording
    \/ RecorderStopped
    \/ GetUserMediaResolves
    \/ Unmount

RecSpec == Init /\ [][RecNext]_vars

\* ---- leaving the screen: every subsystem running ------------------------
ExitNext ==
    \/ SelectCamera
    \/ SelectUpload
    \/ VideoBecomesReady
    \/ Tick
    \/ TimerFire
    \/ DetectorResult
    \/ HandleCapture
    \/ CountdownTick
    \/ GetUserMediaResolves
    \/ Unmount

ExitSpec == Init /\ [][ExitNext]_vars

\* refresh callbacks that are scheduled do run, timers that are pending do fire
SchedLiveSpec == SchedSpec /\ WF_vars(Tick) /\ WF_vars(TimerFire)

TypeOK ==
    /\ mounted \in BOOLEAN
    /\ method \in {"none", "camera", "upload"}
    /\ loopSt \in {"idle", "scheduled", "awaiting"}
    /\ timers \subseteq 1..MaxRequests
    /\ inflight \subseteq 1..MaxRequests
    /\ results.req \in 0..MaxRequests

\* ========================================================================
\* Detection scheduler: properties
\* ========================================================================
\* the loop is in a position to detect: source selected, detection enabled,
\* not paused, frame ready
LoopConditions ==
    mounted /\ method # "none" /\ LoopWantsDetect(videoReady, isDetecting, isPaused)

\* C1: at most one detector invocation (pose.send) is outstanding at any
\* time, also after the recovery timer has force-cleared the flag while the
\* earlier call is still unresolved.
C1_SingleOutstandingInvocation == Cardinality(inflight) <= 1

\* C2: a detector invocation that never settles does not starve detection:
\* while the loop conditions hold, a stuck request is followed by a new
\* detector invocation (or it settles after all).
C2_StuckRequestRecovers ==
    \A k \in 1..(MaxRequests - 1) :
        (k \in inflight /\ sendCount = k)
            ~> (k \notin inflight \/ sendCount > k \/ ~LoopConditions)

\* C3: a detect request made while the single-flight flag is set is dropped:
\* no detector invocation, nothing queued, flag, recovery timer and published
\* results unchanged; an invocation is only ever issued by the step that
\* accepts its own request.
C3_BusyRequestDropped ==
    [][ /\ (ev'.op \in {"accept", "drop"} /\ isProcessing)
            => /\ ev'.op = "drop"
               /\ UNCHANGED <<isProcessing, timeoutRef, timers, inflight,
                              sendCount, results>>
        /\ (inflight' \ inflight # {}) => ev'.op = "accept"
      ]_vars

C3_Witness ==
    ev.op = "drop" /\ isProcessing /\ inflight # {} /\ timers # {}

\* C4: a failing detector invocation is absorbed by detect(): the loop never
\* sees a rejection, the flag is clear right after the failure, the loop that
\* awaited the call is rescheduled, and a request made by the very next step
\* is accepted.
C4_ErrorAbsorbed ==
    [][ /\ ev'.op = "error"
            => /\ ~isProcessing'
               /\ ~detectRejected'
               /\ (loopSt = "awaiting" /\ loopReq = ev'.req) => loopSt' = "scheduled"
        /\ (ev.op = "error" /\ ev'.op \in {"accept", "drop"}) => ev'.op = "accept"
      ]_vars

C4_Witness ==
    ev.op = "error" /\ mounted /\ loopSt = "scheduled" /\ ~isProcessing
        /\ LoopConditions /\ sendCount < MaxRequests

\* C5: the result of a request whose recovery timer already fired, arriving
\* while no newer request has been accepted, is discarded: the published
\* snapshot is unchanged.
C5_LateResultDiscarded ==
    [][ (ev'.op = "result" /\ ev'.req \in expired /\ sendCount = ev'.req)
            => results' = results ]_vars

C5_Witness ==
    ev.op = "result" /\ ev.req \in expired /\ sendCount = ev.req
        /\ results.req # ev.req /\ mounted

AlertEvaluated ==
    /\ ev.op # "init"
    /\ ~MonitorOff(method, isDetecting, isPaused)
    /\ ~NoLandmarks(results)

\* C7: any two consecutive voice dispatches, whichever path (no-body or
\* framing) issued them, are more than 10 seconds apart.
C7_VoiceThrottle ==
    spoken.n >= 2 => spoken.lastAt - spoken.prevAt > 10000

C7_Witness ==
    spoken.n = 2 /\ spoken.prevNoBody /\ ~spoken.lastNoBody

\* C8: a voice dispatch cancels the speech sink before it speaks, so the sink
\* never holds more than one utterance, queued or playing.
C8_SingleUtterance == Len(speechQueue) <= 1

C8_Witness ==
    spoken.n = 2 /\ spoken.preempted /\ Len(speechQueue) = 1

\* C9: when two or more of the four boundary checks fire on the snapshot, the
\* frame alert is the step-back override and no directional message.
C9_MultiViolationOverride ==
    (AlertEvaluated /\ OutCount(results.lm) >= 2)
        => frameAlert = StepBackFitFrame

C9_Witness ==
    /\ AlertEvaluated
    /\ HeadOut(results.lm) /\ FeetOut(results.lm)
    /\ ~LeftOut(results.lm) /\ ~RightOut(results.lm)
    /\ frameAlert = StepBackFitFrame

\* the message of the one boundary check that fires
SingleDirection(lm, facing) ==
    IF HeadOut(lm) THEN MoveDown
    ELSE IF FeetOut(lm) THEN MoveUp
    ELSE IF LeftOut(lm) THEN (IF facing = "user" THEN MoveLeft ELSE MoveRight)
    ELSE (IF facing = "user" THEN MoveRight ELSE MoveLeft)

\* C10: when exactly one boundary check fires, the frame alert is that
\* check's directional message, whatever the visibility of the critical
\* landmarks; a head at y = 0.02 with nothing else out gives "move down".
C10_SingleViolationDirection ==
    (AlertEvaluated /\ OutCount(results.lm) = 1)
        => /\ frameAlert = SingleDirection(results.lm, facingMode)
           /\ frameAlert # StepBackFitFrame
           /\ At(results.lm, 0).y = 2 => frameAlert = MoveDown

C10_Witness ==
    /\ AlertEvaluated
    /\ At(results.lm, 0).y = 2
    /\ OutCount(results.lm) = 1
    /\ IsLowVisibility(results.lm)
    /\ frameAlert = MoveDown

\* C11: with a source selected, detection on and playback not paused, a
\* missing snapshot, a snapshot without landmarks and an empty landmark list
\* all give the no-body alert.
C11_NoBodyAlert ==
    (/\ ev.op # "init"
     /\ method # "none" /\ isDetecting /\ ~isPaused
     /\ (results.kind \in {"null", "nolandmarks"} \/ Len(results.lm) = 0))
        => frameAlert = NoBody

C11_Witness ==
    /\ ev.op # "init"
    /\ method # "none" /\ isDetecting /\ ~isPaused
    /\ results.kind = "landmarks" /\ Len(results.lm) = 0
    /\ frameAlert = NoBody

\* a critical landmark is missing or less visible than 0.55
CriticalWeak(lm) ==
    \E i \in {0, 15, 16, 23, 24, 27, 28, 31, 32} :
        i + 1 > Len(lm) \/ lm[i + 1].v < 55

\* C12: when no boundary check fires, the alert is the full-visibility
\* step-back message exactly when a critical landmark is missing or below
\* 0.55, and there is no alert otherwise.
C12_LowVisibilityAlert ==
    (AlertEvaluated /\ OutCount(results.lm) = 0)
        => /\ (frameAlert = StepBackFullBody) <=> CriticalWeak(results.lm)
           /\ ~CriticalWeak(results.lm) => frameAlert = NoAlert

C12_Witness ==
    /\ AlertEvaluated /\ OutCount(results.lm) = 0
    /\ At(results.lm, 0).v = 55 /\ frameAlert = NoAlert

\* C13: in every step that ends with detection off or playback paused, the
\* frame alert is cleared and no voice alert is dispatched.
C13_MonitorDisabled ==
    [][ (~isDetecting' \/ isPaused')
            => (frameAlert' = NoAlert /\ spoken' = spoken) ]_vars

C13_Witness ==
    /\ ev.op = "togglePause" /\ isPaused
    /\ results.kind = "landmarks" /\ Len(results.lm) > 0
    /\ OutCount(results.lm) >= 1
    /\ now - lastVoiceRef > 10000
    /\ frameAlert = NoAlert

\* ========================================================================
\* Capture state machine: properties
\* ========================================================================
\* the snapshot gives the capture command nothing to work on: there is no
\* detector result, or analyzePosture returns null for it
NothingToCapture == results.kind = "null" \/ AnalyzePosture(results).kind = "null"

\* C14: a capture command issued with no detector result, or with a result
\* for which the metric computation returns null, is ignored: countdown,
\* captured metrics, paused flag and playback stay as they are, nothing is
\* delivered, no alert or voice output is produced and no error is raised.
C14_CaptureIgnored ==
    [][ (ev'.op \in {"capture", "captureIgnored", "captureThrew"} /\ NothingToCapture)
            => /\ ev'.op = "captureIgnored"
               /\ UNCHANGED <<countdown, capturedMetrics, isPaused, videoPaused,
                              countdownTimer, delivered, frameAlert, speechQueue>>
      ]_vars

C14_Witness ==
    /\ ev.op = "captureIgnored"
    /\ method = "upload" /\ ~isPaused /\ ~videoPaused
    /\ results.kind = "nolandmarks"
    /\ countdown = -1 /\ capturedMetrics = NullMetrics

\* C15: the countdown only ever changes from null to 3 by an accepted capture
\* command and from n to n - 1 by a timer tick (3, 2, 1, 0, never below);
\* each tick takes exactly one off; the metrics are handed to onComplete in
\* the step that reaches 0 and in no other; and a countdown that has started
\* reaches 0 with the metrics delivered unless the screen is left.
C15_CountdownSequence ==
    /\ [][ /\ (countdown' # countdown)
               => \/ countdown = -1 /\ countdown' = 3 /\ ev'.op = "capture"
                  \/ /\ countdown \in 1..3 /\ countdown' = countdown - 1
                     /\ ev'.op = "countdownTick"
           /\ (ev'.op = "countdownTick") => countdown' = countdown - 1
           /\ (delivered' # delivered) <=> (countdown = 1 /\ countdown' = 0)
           /\ (countdown = 1 /\ countdown' = 0)
               => delivered' = Append(delivered, capturedMetrics)
         ]_vars
    /\ (countdown = 3) ~> ((countdown = 0 /\ Len(delivered) = 1) \/ ~mounted)

C15_Witness ==
    /\ ev.op = "countdownTick" /\ countdown = 0
    /\ Len(delivered) = 1 /\ delivered[1].kind = "metrics"

\* C16: what is delivered is what analyzePosture gives for the snapshot that
\* was current when the capture command was accepted, and the captured
\* metrics stay those throughout the countdown, whatever is published or
\* commanded meanwhile.
C16_DeliversAcceptedSnapshot ==
    /\ (countdown >= 0) => capturedMetrics = AnalyzePosture(acceptedOn)
    /\ \A i \in 1..Len(delivered) :
          delivered[i].kind = "metrics" /\ delivered[i] = AnalyzePosture(acceptedOn)

C16_Witness ==
    /\ Len(delivered) = 1
    /\ results # acceptedOn
    /\ AnalyzePosture(results).kind = "metrics"
    /\ AnalyzePosture(results) # delivered[1]

\* C17: the step that accepts a capture command in upload mode pauses the
\* video and sets isPaused together with starting the countdown at 3; in
\* camera mode it leaves isPaused and the video as they are.
C17_CapturePausesPlayback ==
    [][ (ev'.op = "capture")
            => IF method = "upload"
               THEN isPaused' /\ videoPaused' /\ countdown' = 3
               ELSE UNCHANGED <<isPaused, videoPaused>>
      ]_vars

C17_Witness ==
    /\ ev.op = "capture" /\ method = "upload"
    /\ isPaused /\ videoPaused /\ countdown = 3

\* C18: the step that leaves the screen stops every camera track, stops the
\* detection loop, clears the countdown timer and the recovery timer, and
\* cancels the voice output in flight.
C18_ExitTearsDown ==
    [][ (mounted /\ ~mounted')
            => /\ \A a \in 1..Len(acqs') : acqs'[a].stream # "live"
               /\ loopSt' = "idle"
               /\ ~countdownTimer'
               /\ timers' = {}
               /\ speechQueue' = <<>>
      ]_vars

\* C19: once the source is gone (the screen is left, or the source selector
\* is back) no recorder is recording and the recording flag is clear.
C19_NoRecorderWithoutSource ==
    (~mounted \/ method = "none") => (recorder # "recording" /\ ~isRecording)

\* ========================================================================
\* Camera acquisition: properties
\* ========================================================================
\* C20: every run of setupCamera requests the constraints in the order 1, 2,
\* 3; a constraint is requested only after every earlier one was rejected;
\* and nothing is requested once a request has resolved.
C20_ConstraintFallbackOrder ==
    \A a \in 1..Len(acqs) :
        LET r == acqs[a] IN
        /\ Len(r.tried) <= 3
        /\ \A i \in 1..Len(r.tried) :
              r.tried[i] = i /\ (\A j \in 1..(i - 1) : j \in r.failed)
        /\ (r.got # 0) => (r.awaiting = 0 /\ Len(r.tried) = r.got)

C20_Witness ==
    \E a \in 1..Len(acqs) :
        /\ acqs[a].tried = <<1, 2, 3>> /\ acqs[a].failed = {1, 2}
        /\ acqs[a].got = 3 /\ acqs[a].stream = "live"

\* C21: when the third and last constraint of the run of setupCamera in
\* force is rejected, the camera alert is shown for that run, method goes
\* back to null, and no stream is live or attached to the video element.
C21_AllConstraintsFail ==
    [][ \A a \in 1..Len(acqs) :
          (/\ ev'.op \in {"cameraFailed", "cameraReject"} /\ ev'.req = a
           /\ acqs[a].isActive /\ acqs[a].awaiting = 3)
              => /\ a \in alerted' /\ a \notin alerted
                 /\ method' = "none"
                 /\ srcObject' = 0
                 /\ \A b \in 1..Len(acqs') : acqs'[b].stream # "live"
      ]_vars

C21_Witness ==
    /\ ev.op = "cameraFailed" /\ ev.req \in alerted
    /\ acqs[ev.req].failed = {1, 2, 3} /\ acqs[ev.req].tried = <<1, 2, 3>>
    /\ method = "none"

\* the runs of setupCamera whose stream has live tracks
LiveStreams == {a \in 1..Len(acqs) : acqs[a].stream = "live"}

\* C22: at most one camera stream has live tracks in every state, and in the
\* step that starts a new run of setupCamera no stream acquired before has
\* live tracks any more.
C22_SingleLiveStream ==
    /\ [](Cardinality(LiveStreams) <= 1)
    /\ [][ (Len(acqs') > Len(acqs))
              => \A a \in 1..Len(acqs) : acqs'[a].stream # "live" ]_vars

C22_Witness ==
    /\ ev.op = "select" /\ Len(acqs) = 2
    /\ acqs[1].stream = "stopped" /\ acqs[1].current
    /\ acqs[2].isActive /\ srcObject = 0

\* C23: the stream of a run that is no longer in force is stopped, whether
\* it was held when the run was superseded or arrives afterwards; a stream
\* that arrives afterwards is never attached to the video element; and
\* a cleanup that finds no live stream changes no stream.
C23_EveryStreamReleased ==
    /\ [](\A a \in 1..Len(acqs) :
            /\ (~acqs[a].isActive /\ acqs[a].stream # "none")
                  => acqs[a].stream = "stopped"
            /\ ~acqs[a].current => srcObject # a)
    /\ [][ (ev'.op \in {"reset", "unmount", "toggleFacing", "select"}
            /\ LiveStreams = {})
              => \A a \in 1..Len(acqs) : acqs'[a].stream = acqs[a].stream ]_vars

C23_Witness ==
    /\ ev.op = "cameraResolve"
    /\ ~acqs[ev.req].isActive /\ ~acqs[ev.req].current
    /\ acqs[ev.req].got # 0 /\ acqs[ev.req].stream = "stopped"
    /\ srcObject # ev.req

\* ========================================================================
\* Recording: properties
\* ========================================================================
\* C24: stopping when the ref holds no recorder or an inactive one changes
\* nothing: the recorder state stays, no stop is issued (no event queued, so
\* no file follows); hence stopping twice is stopping once.
C24_StopIdempotent ==
    /\ (recorder \in {"null", "inactive"})
          => /\ StopRecorder(recorder) = recorder
             /\ EventsAfterStop(recorder, recId, recEvents) = recEvents
    /\ StopRecorder(StopRecorder(recorder)) = StopRecorder(recorder)
    /\ EventsAfterStop(StopRecorder(recorder), recId,
                       EventsAfterStop(recorder, recId, recEvents))
          = EventsAfterStop(recorder, recId, recEvents)

C24_Witness ==
    /\ ev.op = "recordFailed" /\ recorder = "inactive" /\ ~isRecording
    /\ recEvents = {} /\ Len(files) = 1

\* C25: a start of recording in which captureStream, the MediaRecorder
\* constructor or recorder.start() throws ends with the recording flag
\* false and no recorder recording, queues no recorder event and emits no
\* file, and the exception stays inside the effect.
C25_StartFailureRolledBack ==
    [][ (~isRecording /\ ev'.op \in {"recordStart", "recordFailed"}
         /\ recorder' # "recording")
            => /\ ev'.op = "recordFailed"
               /\ ~isRecording'
               /\ recEvents' = recEvents
               /\ files' = files
      ]_vars

C25_Witness ==
    /\ ev.op = "recordFailed" /\ ev.req = recId /\ recId = 1
    /\ ~isRecording /\ recorder = "inactive" /\ files = <<>>

\* C26: every file holds exactly the chunks its own recorder produced, in
\* order, and no recorder emits two files.
C26_FilePerSession ==
    /\ \A i \in 1..Len(files) : files[i].chunks = files[i].produced
    /\ \A i, j \in 1..Len(files) : (files[i].by = files[j].by) => i = j

\* ========================================================================
\* Posture metric engine: properties
\* ========================================================================
\* analyzePosture has run on the snapshot acceptedOn and capturedMetrics is
\* what it returned
Analysed == ev.op # "init" /\ capturedMetrics.kind = "metrics"

LeftShoulderOf(res) == At(res.lm, 11)
RightShoulderOf(res) == At(res.lm, 12)
EarOffsetOf(res) == At(res.lm, 7).x - At(res.lm, 11).x

InSeq(sq, x) == \E i \in 1..Len(sq) : sq[i] = x

\* both angles within three degrees and the forward-head offset within 0.05
WithinTolerance(m) ==
    /\ Abs(m.shoulderAngle) <= 3000000
    /\ Abs(m.pelvicAngle) <= 3000000
    /\ m.roundShoulderIndex <= 5

C28_ScoreInRange ==
    (capturedMetrics.kind = "metrics") => capturedMetrics.score \in 0..100

C28_Witness ==
    /\ Analysed
    /\ capturedMetrics.shoulderAngle = 180000000
    /\ capturedMetrics.pelvicAngle = 180000000
    /\ capturedMetrics.roundShoulderIndex = 12
    /\ capturedMetrics.score = 0

\* C29: with the left shoulder at (0.40, 0.50) and the right shoulder at
\* (0.60, 0.50) the shoulder angle is 0 and no shoulder issue is reported.
C29_ScenarioALevelShoulders ==
    (/\ Analysed
     /\ LeftShoulderOf(acceptedOn).x = 40 /\ LeftShoulderOf(acceptedOn).y = 50
     /\ RightShoulderOf(acceptedOn).x = 60 /\ RightShoulderOf(acceptedOn).y = 50)
        => /\ capturedMetrics.shoulderAngle = 0
           /\ ~InSeq(capturedMetrics.issues, LeftShoulderHigh)
           /\ ~InSeq(capturedMetrics.issues, RightShoulderHigh)

\* C30: the forward-head label is in the issues list exactly when the offset
\* ear.x - shoulder.x is above 0.1, and the score carries the 20-point
\* penalty exactly when the offset is above 0.05, whatever the label.
C30_NeckThresholds ==
    Analysed
        => LET m == capturedMetrics
               off == EarOffsetOf(acceptedOn)
               base == 100000000 - 5 * Abs(m.shoulderAngle)
                                 - 5 * Abs(m.pelvicAngle)
               pen == IF off > 5 THEN 20000000 ELSE 0
               clamped == IF base - pen < 0 THEN 0 ELSE base - pen
           IN /\ InSeq(m.issues, RoundShoulder) <=> (off > 10)
              /\ m.score = (clamped + 500000) \div 1000000

C30_Witness ==
    /\ Analysed
    /\ EarOffsetOf(acceptedOn) = 10
    /\ capturedMetrics.shoulderAngle = 0 /\ capturedMetrics.pelvicAngle = 0
    /\ capturedMetrics.score = 80
    /\ capturedMetrics.issues = <<>>

\* ========================================================================
\* Properties of the whole screen
\* ========================================================================
\* the capture handler has just run analyzePosture on the published snapshot
CaptureAnalysed ==
    ev.op \in {"capture", "captureIgnored", "captureThrew"}
        /\ results.kind # "null"

\* C31: analyzePosture returns null, without throwing, for a snapshot
\* without landmarks (poseLandmarks absent or an empty list), and returns
\* metrics for a snapshot with the full list of landmarks.
C31_NullWithoutLandmarks ==
    CaptureAnalysed
        => /\ NoLandmarks(results) => ev.op = "captureIgnored"
           /\ (results.kind = "landmarks" /\ Len(results.lm) = NumLandmarks)
                => (ev.op = "capture" /\ capturedMetrics.kind = "metrics")

Mirrored(msg) ==
    IF msg = MoveLeft THEN MoveRight
    ELSE IF msg = MoveRight THEN MoveLeft
    ELSE msg

\* C33: reversing the facing mode on the same snapshot exchanges the two
\* horizontal messages and leaves every other message (vertical, step-back
\* override, low visibility, none) as it was; a left-side landmark beyond the
\* edge alone gives move-left facing the user and move-right facing the
\* environment, a right-side landmark beyond the edge alone the reverse.
C33_FacingSwapsHorizontal ==
    [][ (ev'.op = "toggleFacing" /\ AlertEvaluated)
            => LET lm == results.lm
                   user == facingMode = "user"
               IN /\ results' = results
                  /\ facingMode' # facingMode
                  /\ frameAlert' = Mirrored(frameAlert)
                  /\ (OutCount(lm) = 1 /\ LeftOut(lm))
                        => frameAlert = (IF user THEN MoveLeft ELSE MoveRight)
                  /\ (OutCount(lm) = 1 /\ RightOut(lm))
                        => frameAlert = (IF user THEN MoveRight ELSE MoveLeft)
                  /\ (OutCount(lm) = 1 /\ (HeadOut(lm) \/ FeetOut(lm)))
                        => frameAlert' = frameAlert
                  /\ OutCount(lm) > 1 => frameAlert' = StepBackFitFrame
      ]_vars

C33_Witness ==
    /\ ev.op = "toggleFacing" /\ AlertEvaluated
    /\ facingMode = "environment"
    /\ OutCount(results.lm) = 1 /\ LeftOut(results.lm)
    /\ frameAlert = MoveRight

\* C34: while the hook is mounted, the single-flight flag being set implies
\* that the recovery timer of timeoutRef is pending, and at most one recovery
\* timer is pending: whatever results, errors and expiries have happened,
\* a set flag always has a timer scheduled to clear it.
C34_FlagHasTimer ==
    mounted
        => /\ isProcessing => (timeoutRef # 0 /\ timeoutRef \in timers)
           /\ Cardinality(timers) <= 1

\* request 1 timed out and is still outstanding, request 2 is in flight
C34_Witness ==
    /\ mounted /\ isProcessing
    /\ 1 \in expired /\ 1 \in inflight
    /\ 2 \in inflight /\ timers = {2} /\ timeoutRef = 2

\* C35: every snapshot published by setResults is the result of the most
\* recently accepted request; the late result or late error of a timed-out
\* request, arriving while a newer request is in flight, publishes nothing
\* and leaves the flag and the recovery timer of the newer request alone.
C35_PublishedFromLatestRequest ==
    [][ /\ results' # results
            => (ev'.op = "result" /\ results'.req = ev'.req
                    /\ ev'.req = sendCount)
        /\ (/\ ev'.op \in {"result", "error"}
            /\ ev'.req \in expired /\ ev'.req < sendCount
            /\ sendCount \in inflight)
            => UNCHANGED <<results, isProcessing, timers>>
      ]_vars

\* C36: at most one detection loop is active. The current loop is the only
\* one that schedules callbacks; a loop whose effect was re-run or cleaned up
\* while it awaited a detector call is inactive, and when that call settles
\* it starts no detection and schedules no refresh callback: the position of
\* the current loop changes only if the settling call published a snapshot
\* (the render re-runs the effect).
C36_SingleActiveLoop ==
    /\ [](/\ loopReq \notin suspended
          /\ (loopSt = "awaiting") <=> (loopReq # 0)
          /\ loopSt = "awaiting" => loopReq \in inflight
          /\ suspended \subseteq inflight
          /\ loopSt # "idle" => (mounted /\ method # "none"))
    /\ [][ (ev'.op \in {"result", "error"} /\ ev'.req \in suspended)
             => /\ ev'.req \notin suspended'
                /\ sendCount' = sendCount
                /\ inflight' = inflight \ {ev'.req}
                /\ results' = results => UNCHANGED <<loopSt, loopReq>>
         ]_vars

\* the call awaited by a cleaned-up loop has failed while the current loop
\* awaits a newer call
C36_Witness ==
    /\ ev.op = "error" /\ ev.req = 1
    /\ mounted /\ loopSt = "awaiting" /\ loopReq = 2
    /\ suspended = {} /\ inflight = {2}

C38_ResetCancelsCountdown ==
    /\ (mounted /\ method = "none") => (countdown = -1 /\ ~countdownTimer)
    /\ ev.op = "select" => CaptureEnabled(countdown)
    /\ (ev.op = "countdownTick" /\ ~mounted) => method # "none"

\* C39: a capture command is accepted only on a snapshot detected from the
\* selected source: right after a source has been selected, before anything
\* has been published from it, no capture command is accepted.
C39_SnapshotFromCurrentSource ==
    [][ (ev.op = "select"
            /\ ev'.op \in {"capture", "captureIgnored", "captureThrew"})
            => (ev'.op # "capture" /\ countdown' = countdown
                    /\ capturedMetrics' = capturedMetrics) ]_vars

\* C40: when the last constraint of a superseded acquisition (its effect
\* cleaned up by a facing toggle, a reset or the exit) is rejected, no alert
\* is shown and the selected source is left as it is; the camera alert is
\* shown, and camera mode abandoned, only by the failure of the acquisition
\* that is current.
C40_SupersededFailureSilent ==
    [][ /\ (ev'.op \in {"cameraReject", "cameraFailed"}
                /\ ~acqs[ev'.req].isActive)
            => /\ ev'.op = "cameraReject"
               /\ UNCHANGED <<alerted, method, srcObject>>
        /\ alerted' # alerted
            => /\ ev'.op = "cameraFailed"
               /\ acqs[ev'.req].isActive /\ ev'.req = Len(acqs)
               /\ alerted' = alerted \cup {ev'.req}
        /\ (method = "camera" /\ method' = "none")
            => ev'.op \in {"cameraFailed", "reset"}
      ]_vars

\* the first acquisition was superseded by a facing toggle and then ran out
\* of constraints; the second is still pending and the camera still selected
C40_Witness ==
    /\ ev.op = "cameraReject" /\ ev.req = 1
    /\ Len(acqs) = 2 /\ ~acqs[1].isActive
    /\ acqs[1].failed = 1..NumConstraints /\ acqs[1].awaiting = 0
    /\ acqs[2].isActive /\ acqs[2].awaiting # 0
    /\ mounted /\ method = "camera" /\ alerted = {}
    /\ facingMode = "environment"

====
